---------------------------- MODULE Spec2Model ----------------------------
(***************************************************************************)
(* Model of the Scientific Papers API (app/main.py and app/services):      *)
(* the /search/insights pipeline (retrieve -> number -> generate ->        *)
(* enrich -> assemble), the /search and /title endpoints and the services  *)
(* they call.                                                              *)
(*                                                                         *)
(* Conventions.                                                            *)
(*  - A Python str is a sequence of tokens (one-character strings such as  *)
(*    " " or "'" and opaque word tokens); the empty str is <<>>.           *)
(*  - An Optional value is a set: {} is None, {v} is the value v.          *)
(*  - A certainty is a number of basis points: 7500 is 0.75.               *)
(***************************************************************************)
EXTENDS Integers, Sequences, FiniteSets, TLC

\* ------------------------------------------------------------------ bounds
MaxHits == 3        \* longest list the retriever returns
MaxLimit == 3       \* largest request limit (models.py allows 1..20)

\* ------------------------------------------------------------- Python bits
None == {}
Some(v) == {v}
TheValue(opt) == CHOOSE v \in opt : TRUE

\* bool(str): a str is truthy iff it is not empty
StrTruthy(s) == Len(s) > 0
\* bool(Optional[str])
OptStrTruthy(o) == o # None /\ StrTruthy(TheValue(o))
\* bool(Optional[float]): None and 0.0 are falsy
OptNumTruthy(o) == o # None /\ TheValue(o) # 0

Min(a, b) == IF a < b THEN a ELSE b

\* papers[:k] for k >= 0
Take(s, k) == SubSeq(s, 1, Min(k, Len(s)))

\* str(int) for the small integers the model prints
NumStr(n) == IF n \in 0..9 THEN <<"0", "1", "2", "3", "4", "5", "6", "7", "8", "9">>[n + 1]
             ELSE "many"

\* f"{c:.2%}" for a certainty in basis points with whole percents
PercentStr(bp) ==
    CASE bp = 0 -> "0.00%"
      [] bp = 7500 -> "75.00%"
      [] bp = 10000 -> "100.00%"
      [] OTHER -> "?%"

IsSpace(tok) == tok \in {" ", "\n", "\t"}

RECURSIVE LStrip(_)
LStrip(s) == IF s # <<>> /\ IsSpace(Head(s)) THEN LStrip(Tail(s)) ELSE s

RECURSIVE RStrip(_)
RStrip(s) == IF s # <<>> /\ IsSpace(s[Len(s)]) THEN RStrip(SubSeq(s, 1, Len(s) - 1)) ELSE s

\* str.strip()
Strip(s) == RStrip(LStrip(s))

\* -------------------------------------------------------------- data model
\* models.py: the fields class Reference declares
ReferenceFields == {"id", "title", "link", "certainty"}

\* models.py: the classes the module defines (main.py imports GraphData from it)
ModelsExports ==
    {"SearchRequest", "DocumentHit", "SearchResponse", "TitleRequest", "TitleResponse",
     "GraphRequest", "GraphNode", "GraphRelationship", "GraphResponse",
     "InsightRequest", "Reference", "InsightResponse"}

\* config.py: the fields class Settings declares
SettingsFields ==
    {"weaviate_url", "weaviate_api_key", "cohere_api_key", "anthropic_api_key",
     "collection_name", "use_cloud", "request_timeout_seconds",
     "neo4j_uri", "neo4j_username", "neo4j_password", "neo4j_database"}

\* DocumentHit values the retriever hands out (title, link, certainty are the
\* fields the pipeline reads); titles are distinct so that order is visible
Hit(t, l, c, a, p) ==
    [title |-> t, link |-> l, certainty |-> c, full_abstract |-> a, content_preview |-> p]

HitPool ==
    { Hit(<<"T1">>, Some(<<"L1">>), Some(7500), <<"a", "1">>, <<"p", "1">>),
      Hit(<<"T2">>, Some(<<"L2">>), None, <<>>, <<"p", "2">>),
      Hit(<<"T3">>, None, Some(0), <<"a", "3">>, <<>>),
      Hit(<<"T4">>, Some(<<>>), Some(10000), <<>>, <<>>) }

\* _make_preview (document_service.py)
make_preview(text, max_chars) ==
    IF Len(text) <= max_chars THEN text
    ELSE RStrip(Take(text, max_chars)) \o <<".", ".", ".">>

\* _make_preview(content, 500), document_service.py line 72
PreviewChars == 500

\* The DocumentHit that search_documents builds from a stored object
DocumentHitOf(title, link, certainty, abstract, content) ==
    Hit(title, link, certainty, abstract, make_preview(content, PreviewChars))

\* A text of n characters
Chars(n) == [i \in 1..n |-> "x"]

\* Stored objects whose texts lie on both sides of the excerpt length: an
\* abstract of exactly 500 characters, one of 501, no abstract with a content
\* of 501 characters, and no abstract with a content whose 500th character
\* is a blank
LongHits ==
    { DocumentHitOf(<<"E1">>, None, Some(7500), Chars(500), Chars(3)),
      DocumentHitOf(<<"E2">>, None, Some(0), Chars(501), <<>>),
      DocumentHitOf(<<"E3">>, None, None, <<>>, Chars(501)),
      DocumentHitOf(<<"E4">>, None, None, <<>>, Chars(499) \o <<" ">> \o Chars(2)) }

LongHitLists == {<<h>> : h \in LongHits} \cup {<<g, h>> : g, h \in LongHits}

RECURSIVE SeqsUpTo(_, _)
SeqsUpTo(S, n) ==
    IF n = 0 THEN {<<>>}
    ELSE LET shorter == SeqsUpTo(S, n - 1)
         IN  shorter \cup {Append(s, x) : s \in {t \in shorter : Len(t) = n - 1}, x \in S}

HitLists == SeqsUpTo(HitPool, MaxHits)

Queries == {<<"quantum">>}

\* Reference(id=, title=, link=, certainty=); "graph" is the slot main.py
\* assigns to: "unset" until an assignment to ref.graph succeeds
MkReference(idx, paper) ==
    [id |-> idx, title |-> paper.title, link |-> paper.link,
     certainty |-> paper.certainty, graph |-> "unset"]


\* papers[:k], Python slice semantics (a negative k counts from the end)
PySliceTo(s, k) ==
    IF k >= 0 THEN Take(s, k)
    ELSE IF Len(s) + k > 0 THEN SubSeq(s, 1, Len(s) + k) ELSE <<>>

\* ------------------------------------------------- InsightsService (OpenAI)
\* What chat.completions.create can do: raise, answer without choices, answer
\* with content None or "", with blank content, with text
Response(r, n, c) == [raises |-> r, choices |-> n, content |-> c]

ProviderResponses ==
    { Response(TRUE, 0, None),
      Response(FALSE, 0, None),
      Response(FALSE, 1, None),
      Response(FALSE, 1, Some(<<>>)),
      Response(FALSE, 1, Some(<<" ">>)),
      Response(FALSE, 1, Some(<<" ", "Insight [1]", "\n">>)),
      Response(FALSE, 1, Some(<<"Insight [1]">>)) }

\* An api key as the settings carry it: None, "" or a key
ApiKeys == {None, Some(<<>>), Some(<<"sk-key">>)}

\* InsightsService._build_openai_client: the client, or None when there is no
\* key or the constructor raised; a client is Some("OpenAI")
build_openai_client(api_key, ctor_raises) ==
    IF ~OptStrTruthy(api_key) THEN None
    ELSE IF ctor_raises THEN None
    ELSE Some("OpenAI")

\* (variant: enumerate(papers) without its start, so that ids begin at 0)
build_references_FromZero(papers) ==
    [idx \in 1..Len(papers) |-> MkReference(idx - 1, papers[idx])]

\* InsightsService._build_references
build_references(papers) ==
    [idx \in 1..Len(papers) |-> MkReference(idx, papers[idx])]

\* One line of the heuristic summary: "[idx] title (relevancia: 75.00%)\n"
FallbackLine(idx, paper) ==
    <<"[", NumStr(idx), "] ">> \o paper.title
    \o (IF OptNumTruthy(paper.certainty)
        THEN <<" (relevancia: ", PercentStr(TheValue(paper.certainty)), ")">>
        ELSE <<>>)
    \o <<"\n">>

RECURSIVE FallbackLines(_, _)
FallbackLines(papers, n) ==
    IF n = 0 THEN <<>> ELSE FallbackLines(papers, n - 1) \o FallbackLine(n, papers[n])

\* A generate result: the text, the references, and three observations of the
\* run: `by`, the generator whose output the text is, `invoked`, the
\* generators run, in order, and `prompt`, the user message sent to OpenAI
\* (empty when no call was made)
Result(text, refs, by, invoked) ==
    [text |-> text, references |-> refs, by |-> by, invoked |-> invoked, raised |-> FALSE,
     prompt |-> <<>>]

\* The call ended in an exception instead of a result
Raised(invoked) ==
    [text |-> <<>>, references |-> <<>>, by |-> "nobody", invoked |-> invoked, raised |-> TRUE,
     prompt |-> <<>>]

\* The run sent `prompt` to OpenAI
Prompted(prompt, r) == [r EXCEPT !.prompt = prompt]

\* content[:500], insights_service.py line 137
ExcerptChars == 500

\* f"{paper.certainty:.2%}" if paper.certainty else "N/A"
certainty_str(paper) ==
    IF OptNumTruthy(paper.certainty) THEN PercentStr(TheValue(paper.certainty)) ELSE "N/A"

\* paper.full_abstract if paper.full_abstract else paper.content_preview
excerpt_source(paper) ==
    IF StrTruthy(paper.full_abstract) THEN paper.full_abstract ELSE paper.content_preview

\* One paper_text of _build_papers_context_with_numbers; texts are sequences
\* of characters, so the "..." of the template is three of them
paper_text(idx, paper) ==
    <<"[", NumStr(idx), "] ">> \o paper.title \o <<"\n">>
    \o <<"Relevancia: ", certainty_str(paper), "\n">>
    \o <<"Resumen: ">> \o Take(excerpt_source(paper), ExcerptChars) \o <<".", ".", ".">>
    \o <<"\n">>

\* InsightsService._build_papers_context_with_numbers: "\n".join(parts)
RECURSIVE build_papers_context_with_numbers(_, _)
build_papers_context_with_numbers(papers, n) ==
    IF n = 0 THEN <<>>
    ELSE IF n = 1 THEN paper_text(1, papers[1])
    ELSE build_papers_context_with_numbers(papers, n - 1) \o <<"\n">> \o paper_text(n, papers[n])

\* The prompt of generate_insight, lines 64-82
build_prompt(query, top_papers) ==
    <<"You are a scientific expert analyzing academic literature.\n\n",
      "User search query: \"">> \o query \o <<"\"\n\n",
      "Below are the ", NumStr(Len(top_papers)), " most relevant papers found:\n\n">>
    \o build_papers_context_with_numbers(top_papers, Len(top_papers))
    \o <<"\n\n",
         "Your task is to generate a consolidated insight that:\n",
         "1. Identifies the main themes and findings common among these papers\n",
         "2. Highlights emerging trends or patterns\n",
         "3. Points out areas of convergence or divergence in the research\n",
         "4. Is concise but informative (maximum 250 words)\n",
         "5. Uses an academic but accessible tone\n",
         "6. **IMPORTANT**: Use numbered references [1], [2], [3], etc. when mentioning specific information from a paper\n\n",
         "Example: \"Recent studies show that... [1]. Additionally, it has been observed... [2][3].\"\n\n",
         "Generate the insight with references:">>

\* InsightsService._generate_fallback_insight
generate_fallback_insight(query, papers, max_papers) ==
    LET top_papers == PySliceTo(papers, max_papers)
    IN  IF top_papers = <<>>
        THEN Result(<<"No se encontraron papers relevantes para la busqueda.">>, <<>>,
                    "heuristic", <<"heuristic">>)
        ELSE Result(<<"Se encontraron ", NumStr(Len(top_papers)), " papers relevantes para '">>
                      \o query \o <<"'.\n\n", "Principales trabajos:\n">>
                      \o FallbackLines(top_papers, Len(top_papers)),
                    [idx \in 1..Len(top_papers) |-> MkReference(idx, top_papers[idx])],
                    "heuristic", <<"heuristic">>)

\* The generators run after `first`
After(first, r) == [r EXCEPT !.invoked = <<first>> \o r.invoked]

\* (variant: the OpenAI call outside any try, so that its exception leaves
\* generate_insight)
generate_insight_Propagates(client, query, papers, max_papers, response) ==
    IF client = None
    THEN generate_fallback_insight(query, papers, max_papers)
    ELSE LET top_papers == PySliceTo(papers, max_papers)
             references == build_references(top_papers)
             prompt == build_prompt(query, top_papers)
         IN  IF top_papers = <<>>
             THEN Result(<<"No se encontraron papers relevantes para generar un insight.">>,
                         <<>>, "canned", <<>>)
             ELSE Prompted(prompt,
                  IF response.raises
                  THEN Raised(<<"openai">>)
                  ELSE IF response.choices > 0 /\ OptStrTruthy(response.content)
                  THEN Result(Strip(TheValue(response.content)), references, "openai",
                              <<"openai">>)
                  ELSE After("openai", generate_fallback_insight(query, top_papers, max_papers)))

\* InsightsService.generate_insight; client is self._client, response is what
\* the OpenAI call does if it is made
generate_insight(client, query, papers, max_papers, response) ==
    IF client = None
    THEN generate_fallback_insight(query, papers, max_papers)
    ELSE LET top_papers == PySliceTo(papers, max_papers)
             references == build_references(top_papers)
             prompt == build_prompt(query, top_papers)
         IN  IF top_papers = <<>>
             THEN Result(<<"No se encontraron papers relevantes para generar un insight.">>,
                         <<>>, "canned", <<>>)
             ELSE Prompted(prompt,
                  IF response.raises
                  THEN After("openai", generate_fallback_insight(query, top_papers, max_papers))
                  ELSE IF response.choices > 0 /\ OptStrTruthy(response.content)
                  THEN Result(Strip(TheValue(response.content)), references, "openai",
                              <<"openai">>)
                  ELSE After("openai", generate_fallback_insight(query, top_papers, max_papers)))


\* ------------------------------------------- DocumentService (title chain)
\* s.strip(ch) for one character ch
RECURSIVE StripChar(_, _)
StripChar(s, ch) ==
    IF s # <<>> /\ Head(s) = ch THEN StripChar(Tail(s), ch)
    ELSE IF s # <<>> /\ s[Len(s)] = ch THEN StripChar(SubSeq(s, 1, Len(s) - 1), ch)
    ELSE s

\* re.sub(r"\s+", " ", s): every run of whitespace becomes one blank
RECURSIVE CollapseSpaces(_)
CollapseSpaces(s) ==
    IF s = <<>> THEN <<>>
    ELSE IF IsSpace(Head(s))
    THEN <<" ">> \o CollapseSpaces(LStrip(s))
    ELSE <<Head(s)>> \o CollapseSpaces(Tail(s))

\* document_service._sanitize_title
sanitize_title(text) == CollapseSpaces(StripChar(StripChar(Strip(text), "\""), "'"))

\* DocumentService._generate_with_cohere: Optional[str]; the response is what
\* self._cohere.generate does: raise, no generations, generations[0].text
generate_with_cohere(cohere, prompt, response) ==
    IF cohere = None THEN None
    ELSE IF response.raises THEN None
    ELSE IF response.choices = 0 THEN None
    ELSE LET text == IF OptStrTruthy(response.content) THEN TheValue(response.content) ELSE <<>>
         IN  IF StrTruthy(text) THEN Some(sanitize_title(text)) ELSE None

\* "".join(block.text for block in content if hasattr(block, "text")); a block
\* is its text, or None when it has no text attribute
RECURSIVE JoinBlocks(_)
JoinBlocks(blocks) ==
    IF blocks = <<>> THEN <<>>
    ELSE (IF Head(blocks) = None THEN <<>> ELSE TheValue(Head(blocks))) \o JoinBlocks(Tail(blocks))

\* What self._anthropic.messages.create can do: raise, or answer with blocks
Blocks(r, b) == [raises |-> r, content |-> b]

AnthropicResponses ==
    { Blocks(TRUE, <<>>),
      Blocks(FALSE, <<>>),
      Blocks(FALSE, <<None>>),
      Blocks(FALSE, <<Some(<<"'", "'">>)>>),
      Blocks(FALSE, <<Some(<<"\"", "A", " ", "\t", "title", "\"">>), None, Some(<<"\n">>)>>) }

CohereResponses ==
    { Response(TRUE, 0, None),
      Response(FALSE, 0, None),
      Response(FALSE, 1, None),
      Response(FALSE, 1, Some(<<" ", "\"", "\"">>)),
      Response(FALSE, 1, Some(<<" ", "Title", "\n">>)) }

\* DocumentService._generate_with_anthropic: Optional[str]
generate_with_anthropic(anthropic, prompt, response) ==
    IF anthropic = None THEN None
    ELSE IF response.raises THEN None
    ELSE IF response.content = <<>> THEN None
    ELSE LET text == JoinBlocks(response.content)
         IN  IF StrTruthy(text) THEN Some(sanitize_title(text)) ELSE None

\* document_service.py: words[:12]
MaxTitleWords == 12

Terminators == {".", "!", "?"}

\* re.split(r"(?<=[.!?])\s+", s)[0]: s up to the first whitespace that follows
\* a sentence terminator
FirstSentence(s) ==
    LET cuts == {i \in 2..Len(s) : IsSpace(s[i]) /\ s[i - 1] \in Terminators}
    IN  IF cuts = {} THEN s
        ELSE SubSeq(s, 1, (CHOOSE i \in cuts : \A j \in cuts : i <= j) - 1)

\* The first word of s (s starts with no whitespace) and what follows it
RECURSIVE WordLen(_)
WordLen(s) == IF s = <<>> \/ IsSpace(Head(s)) THEN 0 ELSE 1 + WordLen(Tail(s))

\* str.split(): the words, each a sequence of tokens
RECURSIVE SplitWords(_)
SplitWords(s) ==
    LET t == LStrip(s)
    IN  IF t = <<>> THEN <<>>
        ELSE <<SubSeq(t, 1, WordLen(t))>> \o SplitWords(SubSeq(t, WordLen(t) + 1, Len(t)))

\* " ".join(words)
RECURSIVE JoinWords(_)
JoinWords(words) ==
    IF words = <<>> THEN <<>>
    ELSE IF Len(words) = 1 THEN Head(words)
    ELSE Head(words) \o <<" ">> \o JoinWords(Tail(words))

\* str.lower() and str.capitalize() of one token
LowerTok(tok) ==
    CASE tok = "AI" -> "ai"
      [] tok = "An" -> "an"
      [] OTHER -> tok

CapitalizeTok(tok) ==
    CASE tok = "AI" -> "Ai"
      [] tok = "an" -> "An"
      [] tok = "ai" -> "Ai"
      [] OTHER -> tok

\* str.capitalize(): first character upper case, the rest lower case
Capitalize(s) ==
    [i \in 1..Len(s) |-> IF i = 1 THEN CapitalizeTok(s[i]) ELSE LowerTok(s[i])]

\* DocumentService._generate_with_fallback
generate_with_fallback(prompt) ==
    LET first_sentence == FirstSentence(Strip(prompt))
        words == SplitWords(first_sentence)
        top_words == Take(words, MaxTitleWords)
    IN  Capitalize(JoinWords(top_words))

\* A generate_title result: (title, source), or the ValueError; `invoked` are
\* the engines run, in order
TitleResult(title, source, invoked) ==
    [title |-> title, source |-> source, invoked |-> invoked, raised |-> ""]

TitleError(kind) == [title |-> <<>>, source |-> "", invoked |-> <<>>, raised |-> kind]

\* (variant: no check of the trimmed text, blank text goes on to the engines)
generate_title_NoEmptyCheck(cohere, anthropic, text, cohere_response, anthropic_response) ==
    LET cleaned == Strip(text)
        by_cohere == generate_with_cohere(cohere, cleaned, cohere_response)
        by_anthropic == generate_with_anthropic(anthropic, cleaned, anthropic_response)
        tried_cohere == IF cohere # None THEN <<"cohere">> ELSE <<>>
        tried_anthropic == IF anthropic # None THEN <<"anthropic">> ELSE <<>>
    IN  IF cohere # None /\ OptStrTruthy(by_cohere)
        THEN TitleResult(TheValue(by_cohere), "cohere", tried_cohere)
        ELSE IF anthropic # None /\ OptStrTruthy(by_anthropic)
        THEN TitleResult(TheValue(by_anthropic), "anthropic", tried_cohere \o tried_anthropic)
        ELSE TitleResult(generate_with_fallback(cleaned), "heuristic",
                         tried_cohere \o tried_anthropic \o <<"heuristic">>)

\* (variant: a Cohere call that gave no title is made a second time before
\* the chain moves on)
generate_title_RetriesCohere(cohere, anthropic, text, cohere_response, anthropic_response) ==
    LET cleaned == Strip(text)
        by_cohere == generate_with_cohere(cohere, cleaned, cohere_response)
        by_anthropic == generate_with_anthropic(anthropic, cleaned, anthropic_response)
        tried_cohere == IF cohere = None THEN <<>>
                        ELSE IF OptStrTruthy(by_cohere) THEN <<"cohere">>
                        ELSE <<"cohere", "cohere">>
        tried_anthropic == IF anthropic # None THEN <<"anthropic">> ELSE <<>>
    IN  IF ~StrTruthy(cleaned) THEN TitleError("ValueError")
        ELSE IF cohere # None /\ OptStrTruthy(by_cohere)
        THEN TitleResult(TheValue(by_cohere), "cohere", tried_cohere)
        ELSE IF anthropic # None /\ OptStrTruthy(by_anthropic)
        THEN TitleResult(TheValue(by_anthropic), "anthropic", tried_cohere \o tried_anthropic)
        ELSE TitleResult(generate_with_fallback(cleaned), "heuristic",
                         tried_cohere \o tried_anthropic \o <<"heuristic">>)

\* DocumentService.generate_title; cohere and anthropic are self._cohere and
\* self._anthropic, the responses are what the engines do if they are called
generate_title(cohere, anthropic, text, cohere_response, anthropic_response) ==
    LET cleaned == Strip(text)
        by_cohere == generate_with_cohere(cohere, cleaned, cohere_response)
        by_anthropic == generate_with_anthropic(anthropic, cleaned, anthropic_response)
        tried_cohere == IF cohere # None THEN <<"cohere">> ELSE <<>>
        tried_anthropic == IF anthropic # None THEN <<"anthropic">> ELSE <<>>
    IN  IF ~StrTruthy(cleaned) THEN TitleError("ValueError")
        ELSE IF cohere # None /\ OptStrTruthy(by_cohere)
        THEN TitleResult(TheValue(by_cohere), "cohere", tried_cohere)
        ELSE IF anthropic # None /\ OptStrTruthy(by_anthropic)
        THEN TitleResult(TheValue(by_anthropic), "anthropic", tried_cohere \o tried_anthropic)
        ELSE TitleResult(generate_with_fallback(cleaned), "heuristic",
                         tried_cohere \o tried_anthropic \o <<"heuristic">>)

\* Texts of a /title request (models.py: at least 3 characters)
Words13 == [i \in 1..25 |-> IF i % 2 = 1 THEN "an" ELSE " "]

TitleTexts ==
    { <<" ", "\t", " ">>,
      <<" ", "an", " ", "AI", ".", " ", "An", " ">>,
      <<"AI", "!">>,
      Words13 }

\* ------------------------------------------------ the objects a handler gets
\* The `settings` a handler receives through Depends(get_settings): the object
\* and the attributes it has.  DeclaredSettings is the Settings of config.py;
\* the others stand for a settings dependency overridden (app.dependency_overrides,
\* as tests/test_api.py does for the document service) by an object that also
\* carries openai_api_key.
DeclaredSettings == [fields |-> SettingsFields, openai_api_key |-> None]

SettingsObjects ==
    {DeclaredSettings}
    \cup {[fields |-> SettingsFields \cup {"openai_api_key"}, openai_api_key |-> k] : k \in ApiKeys}

\* settings.<name>: the attribute is there, or the read raises AttributeError
HasAttr(obj, name) == name \in obj.fields

\* main.py: source = "openai" if settings.openai_api_key else "fallback"
insight_source(api_key) == IF OptStrTruthy(api_key) THEN "openai" ELSE "fallback"

\* What driver.session()/session.run()/result.graph() can do for one link
GraphLookups == {"ok", "raise"}

\* main.py, the body of `for ref in references:` for one reference; the result
\* is the reference afterwards, whether the Graph Store was queried, and
\* whether an exception left the loop.
\*   try: the lookup may raise; GraphData(...) raises NameError when models.py
\*        defines no GraphData; ref.graph = ... raises ValueError when Reference
\*        declares no field "graph" (pydantic refuses undeclared attributes)
\*   except Exception: ref.graph = None, which raises the same ValueError
enrich_reference(ref, lookup) ==
    IF ~OptStrTruthy(ref.link)
    THEN [ref |-> ref, queried |-> FALSE, raised |-> FALSE]
    ELSE LET attached == /\ lookup = "ok"
                         /\ "GraphData" \in ModelsExports
                         /\ "graph" \in ReferenceFields
         IN  IF attached
             THEN [ref |-> [ref EXCEPT !.graph = "data"], queried |-> TRUE, raised |-> FALSE]
             ELSE IF "graph" \in ReferenceFields
             THEN [ref |-> [ref EXCEPT !.graph = "None"], queried |-> TRUE, raised |-> FALSE]
             ELSE [ref |-> ref, queried |-> TRUE, raised |-> TRUE]

\* ------------------------------------------------------------------- state
VARIABLES
    pc,            \* where the request being served is
    endpoint,      \* the route of the request being served
    payload,       \* its validated body
    settings,      \* the settings object handed to the handler
    papers,        \* what search_documents returned
    client,        \* InsightsService._client
    generated,     \* what generate_insight returned
    references,    \* the handler's `references`
    ref_idx,       \* position of the enrichment loop
    service,       \* the DocumentService's engines: self._cohere, self._anthropic
    titled,        \* what generate_title returned
    calls,         \* collaborators invoked while serving the request, in order
    answers,       \* what the collaborators did when (or would do if) invoked
    response       \* the response of the request

\* The module-level slots, their locks, and the threads that resolve
\* dependencies and build handles
VARIABLES
    thread,            \* per thread: what it is running, where, its locals and outcome
    document_service,  \* dependencies._document_service
    client_instance,   \* weaviate_client._client_instance
    service_lock,      \* holder of dependencies._service_lock
    client_lock,       \* holder of weaviate_client._client_lock
    handles            \* how many handles of each kind were built and closed so far

deps == <<thread, document_service, client_instance, service_lock, client_lock, handles>>

NumThreads == 2

MaxCalls == 3

Threads == 1..NumThreads

IdleThread ==
    [pc |-> "idle", op |-> "", settings |-> DeclaredSettings, client |-> None,
     neo4j_service |-> None, closes |-> 0, result |-> None, outcome |-> ""]

\* After import of main.py: the module-level driver (line 47) exists, the
\* slots are empty, the locks free
InitDeps ==
    /\ thread = [t \in Threads |-> IdleThread]
    /\ document_service = None
    /\ client_instance = None
    /\ service_lock = None
    /\ client_lock = None
    /\ handles = [document_service |-> 0, weaviate_client |-> 0, neo4j_driver |-> 1,
                  openai_client |-> 0, closed_clients |-> 0, closed_drivers |-> 0,
                  shutdowns |-> 0, calls |-> 0]

vars == <<pc, endpoint, payload, settings, papers, client, generated, references,
          ref_idx, service, titled, calls, answers, response>>

\* What a request keeps from its arrival to its response
request == <<endpoint, payload, settings, service>>

NoPayload == [query |-> <<>>, limit |-> 0, text |-> <<>>]

NoResult == Result(<<>>, <<>>, "nobody", <<>>)

NoTitle == TitleResult(<<>>, "", <<>>)

\* Nothing asked yet: `search` becomes {"raised"} or {"returned"}, an engine's
\* entry the response drawn for it, `graph` the lookups made, each with the id
\* of its reference and its outcome
NoAnswers == [search |-> {}, openai |-> {}, cohere |-> {}, anthropic |-> {}, graph |-> <<>>]

\* self._cohere and self._anthropic: a client each, or None
Engines == [cohere : {None, Some("Cohere")}, anthropic : {None, Some("Anthropic")}]

NoEngines == [cohere |-> None, anthropic |-> None]

\* A response: the status and the body's fields (those the route does not
\* have keep their defaults)
NoResponse ==
    [status |-> 0, insight |-> <<>>, references |-> <<>>, papers_analyzed |-> 0,
     source |-> "", items |-> <<>>, title |-> <<>>]

HttpError(code) == [NoResponse EXCEPT !.status = code]

Init ==
    /\ pc = "idle"
    /\ endpoint = ""
    /\ payload = NoPayload
    /\ settings = DeclaredSettings
    /\ papers = <<>>
    /\ client = None
    /\ generated = NoResult
    /\ references = <<>>
    /\ ref_idx = 0
    /\ service = NoEngines
    /\ titled = NoTitle
    /\ calls = <<>>
    /\ answers = NoAnswers
    /\ response = NoResponse
    /\ InitDeps

\* A request arrives; FastAPI validates the body (models.py: limit >= 1) and
\* resolves the dependencies
Receive(route, body, s, engines) ==
    /\ pc = "idle"
    /\ pc' = "handler"
    /\ endpoint' = route
    /\ payload' = body
    /\ settings' = s
    /\ papers' = <<>>
    /\ client' = None
    /\ generated' = NoResult
    /\ references' = <<>>
    /\ ref_idx' = 0
    /\ service' = engines
    /\ titled' = NoTitle
    /\ calls' = <<>>
    /\ answers' = NoAnswers
    /\ response' = NoResponse
    /\ UNCHANGED deps

ReceiveInsights ==
    \E q \in Queries, k \in 1..MaxLimit, s \in SettingsObjects :
        Receive("/search/insights", [NoPayload EXCEPT !.query = q, !.limit = k], s, NoEngines)

ReceiveSearch ==
    \E q \in Queries, k \in 1..MaxLimit :
        Receive("/search", [NoPayload EXCEPT !.query = q, !.limit = k], DeclaredSettings, NoEngines)

ReceiveTitle ==
    \E t \in TitleTexts, e \in Engines :
        Receive("/title", [NoPayload EXCEPT !.text = t], DeclaredSettings, e)

\* What document_service.search_documents can do: raise, or return a list
SearchOutcomes == {[raises |-> TRUE, hits |-> <<>>]} \cup {[raises |-> FALSE, hits |-> h] : h \in HitLists}

Respond(r) ==
    /\ response' = r
    /\ pc' = "done"

\* (variant: no `if not papers` check, an empty list goes on to generation)
InsightsSearch_NoEmptyCheck ==
    /\ pc = "handler" /\ endpoint = "/search/insights"
    /\ \E out \in SearchOutcomes :
        /\ calls' = Append(calls, "search_documents")
        /\ answers' = [answers EXCEPT !.search = IF out.raises THEN {"raised"} ELSE {"returned"}]
        /\ IF out.raises
           THEN Respond(HttpError(502)) /\ UNCHANGED papers
           ELSE papers' = out.hits /\ pc' = "service" /\ UNCHANGED response
    /\ UNCHANGED <<deps, request, client, generated, references, ref_idx, titled>>

\* (variant: a retriever error is taken for "no results")
InsightsSearch_SwallowsError ==
    /\ pc = "handler" /\ endpoint = "/search/insights"
    /\ \E out \in SearchOutcomes :
        /\ calls' = Append(calls, "search_documents")
        /\ answers' = [answers EXCEPT !.search = IF out.raises THEN {"raised"} ELSE {"returned"}]
        /\ papers' = out.hits
        /\ IF out.hits = <<>>
           THEN Respond(HttpError(404))
           ELSE pc' = "service" /\ UNCHANGED response
    /\ UNCHANGED <<deps, request, client, generated, references, ref_idx, titled>>

\* generate_insights, lines 169-181: the search and the empty check
InsightsSearch ==
    /\ pc = "handler" /\ endpoint = "/search/insights"
    /\ \E out \in SearchOutcomes :
        /\ calls' = Append(calls, "search_documents")
        /\ answers' = [answers EXCEPT !.search = IF out.raises THEN {"raised"} ELSE {"returned"}]
        /\ IF out.raises
           THEN Respond(HttpError(502)) /\ UNCHANGED papers
           ELSE /\ papers' = out.hits
                /\ IF out.hits = <<>>
                   THEN Respond(HttpError(404))
                   ELSE pc' = "service" /\ UNCHANGED response
    /\ UNCHANGED <<deps, request, client, generated, references, ref_idx, titled>>

\* generate_insights, line 184: InsightsService(openai_api_key=settings.openai_api_key)
InsightsService ==
    /\ pc = "service"
    /\ IF ~HasAttr(settings, "openai_api_key")
       THEN Respond(HttpError(502)) /\ UNCHANGED <<client, calls>>
       ELSE \E ctor_raises \in BOOLEAN :
                /\ client' = build_openai_client(settings.openai_api_key, ctor_raises)
                /\ calls' = IF OptStrTruthy(settings.openai_api_key)
                            THEN Append(calls, "OpenAI()") ELSE calls
                /\ pc' = "generate"
                /\ UNCHANGED response
    /\ UNCHANGED <<deps, request, papers, generated, references, ref_idx, titled, answers>>

\* generate_insights, lines 187-191
GenerateStep ==
    /\ \E resp \in ProviderResponses :
        LET r == generate_insight(client, payload.query, papers, payload.limit, resp)
        IN  /\ generated' = r
            /\ calls' = calls \o r.invoked
            /\ answers' = [answers EXCEPT !.openai = {resp}]
            /\ IF r.raised
               THEN Respond(HttpError(502)) /\ UNCHANGED <<references, ref_idx>>
               ELSE /\ references' = r.references
                    /\ ref_idx' = 1
                    /\ pc' = "enrich"
                    /\ UNCHANGED response
    /\ UNCHANGED <<deps, request, papers, client, titled>>

InsightsGenerate ==
    /\ pc = "generate"
    /\ GenerateStep

\* generate_insights, lines 194-216: one turn of the loop
EnrichStep ==
    /\ ref_idx <= Len(references)
    /\ \E lookup \in GraphLookups :
        LET e == enrich_reference(references[ref_idx], lookup)
        IN  /\ calls' = IF e.queried THEN Append(calls, "graph") ELSE calls
            /\ answers' = IF e.queried
                          THEN [answers EXCEPT !.graph = Append(@, [id |-> ref_idx, outcome |-> lookup])]
                          ELSE answers
            /\ IF e.raised
               THEN Respond(HttpError(502)) /\ UNCHANGED <<references, ref_idx>>
               ELSE /\ references' = [references EXCEPT ![ref_idx] = e.ref]
                    /\ ref_idx' = ref_idx + 1
                    /\ pc' = "enrich"
                    /\ UNCHANGED response
    /\ UNCHANGED <<deps, request, papers, client, generated, titled>>

InsightsEnrich ==
    /\ pc = "enrich"
    /\ EnrichStep

\* generate_insights, lines 219-226
InsightsRespond ==
    /\ pc = "enrich"
    /\ ref_idx > Len(references)
    /\ Respond([NoResponse EXCEPT
                  !.status = 200,
                  !.insight = generated.text,
                  !.references = references,
                  !.papers_analyzed = Len(papers),
                  !.source = insight_source(settings.openai_api_key)])
    /\ UNCHANGED <<deps, request, papers, client, generated, references, ref_idx, titled, calls,
                   answers>>

\* search_documents with the hits cut to the requested limit by the endpoint
SearchDocuments_CutsToLimit ==
    /\ pc = "handler" /\ endpoint = "/search"
    /\ \E out \in SearchOutcomes :
        /\ calls' = Append(calls, "search_documents")
        /\ answers' = [answers EXCEPT !.search = IF out.raises THEN {"raised"} ELSE {"returned"}]
        /\ IF out.raises
           THEN Respond(HttpError(502)) /\ UNCHANGED papers
           ELSE /\ papers' = out.hits
                /\ Respond([NoResponse EXCEPT !.status = 200,
                                              !.items = PySliceTo(out.hits, payload.limit)])
    /\ UNCHANGED <<deps, request, client, generated, references, ref_idx, titled>>

\* search_documents (the /search handler), lines 107-117
SearchDocuments ==
    /\ pc = "handler" /\ endpoint = "/search"
    /\ \E out \in SearchOutcomes :
        /\ calls' = Append(calls, "search_documents")
        /\ answers' = [answers EXCEPT !.search = IF out.raises THEN {"raised"} ELSE {"returned"}]
        /\ IF out.raises
           THEN Respond(HttpError(502)) /\ UNCHANGED papers
           ELSE /\ papers' = out.hits
                /\ Respond([NoResponse EXCEPT !.status = 200, !.items = out.hits])
    /\ UNCHANGED <<deps, request, client, generated, references, ref_idx, titled>>

\* generate_title with the source tag chosen by the endpoint
GenerateTitle_OwnTag ==
    /\ pc = "handler" /\ endpoint = "/title"
    /\ \E cr \in CohereResponses, ar \in AnthropicResponses :
        LET r == generate_title(service.cohere, service.anthropic, payload.text, cr, ar)
        IN  /\ titled' = r
            /\ calls' = calls \o r.invoked
            /\ answers' = [answers EXCEPT !.cohere = {cr}, !.anthropic = {ar}]
            /\ IF r.raised = "ValueError" THEN Respond(HttpError(400))
               ELSE IF r.raised # "" THEN Respond(HttpError(502))
               ELSE Respond([NoResponse EXCEPT !.status = 200, !.title = r.title,
                                               !.source = IF service.cohere # None
                                                          THEN "cohere" ELSE r.source])
    /\ UNCHANGED <<deps, request, papers, client, generated, references, ref_idx>>

\* generate_title (the /title handler), lines 127-135
GenerateTitle ==
    /\ pc = "handler" /\ endpoint = "/title"
    /\ \E cr \in CohereResponses, ar \in AnthropicResponses :
        LET r == generate_title(service.cohere, service.anthropic, payload.text, cr, ar)
        IN  /\ titled' = r
            /\ calls' = calls \o r.invoked
            /\ answers' = [answers EXCEPT !.cohere = {cr}, !.anthropic = {ar}]
            /\ IF r.raised = "ValueError" THEN Respond(HttpError(400))
               ELSE IF r.raised # "" THEN Respond(HttpError(502))
               ELSE Respond([NoResponse EXCEPT !.status = 200, !.title = r.title,
                                               !.source = r.source])
    /\ UNCHANGED <<deps, request, papers, client, generated, references, ref_idx>>

\* InsightsService(openai_api_key=key).generate_insight(query=, papers=,
\* max_papers=) called on its own, as a unit test calls it
CallGenerateInsight ==
    /\ pc = "idle"
    /\ \E q \in Queries, k \in 0..MaxLimit, key \in ApiKeys, ctor_raises \in BOOLEAN,
          hits \in HitLists \cup LongHitLists, resp \in ProviderResponses :
        LET c == build_openai_client(key, ctor_raises)
            r == generate_insight(c, q, hits, k, resp)
        IN  /\ endpoint' = "generate_insight"
            /\ payload' = [NoPayload EXCEPT !.query = q, !.limit = k]
            /\ papers' = hits
            /\ client' = c
            /\ generated' = r
            /\ references' = r.references
            /\ calls' = r.invoked
            /\ answers' = [NoAnswers EXCEPT !.openai = {resp}]
    /\ pc' = "done"
    /\ settings' = DeclaredSettings
    /\ service' = NoEngines
    /\ titled' = NoTitle
    /\ ref_idx' = 0
    /\ response' = NoResponse
    /\ UNCHANGED deps

\* The response is sent and the request's objects are dropped
Return ==
    /\ pc = "done"
    /\ pc' = "idle"
    /\ endpoint' = ""
    /\ payload' = NoPayload
    /\ settings' = DeclaredSettings
    /\ papers' = <<>>
    /\ client' = None
    /\ generated' = NoResult
    /\ references' = <<>>
    /\ ref_idx' = 0
    /\ service' = NoEngines
    /\ titled' = NoTitle
    /\ calls' = <<>>
    /\ answers' = NoAnswers
    /\ response' = NoResponse
    /\ UNCHANGED deps

Next ==
    \/ ReceiveInsights
    \/ ReceiveSearch
    \/ ReceiveTitle
    \/ SearchDocuments
    \/ GenerateTitle
    \/ CallGenerateInsight
    \/ Return
    \/ InsightsSearch
    \/ InsightsService
    \/ InsightsGenerate
    \/ InsightsEnrich
    \/ InsightsRespond

Spec == Init /\ [][Next]_vars


\* ------------------------------------------------------------------ claims
Insights == endpoint = "/search/insights"

\* generate_insight has run (in the pipeline or called on its own)
Generated == answers.openai # {}

\* The request has its InsightResponse
InsightReturned == Insights /\ pc = "done" /\ response.status = 200

\* refs are numbered 1..Len(refs) and refs[i] carries hit i's title, link and
\* certainty
NumberedFrom(refs, hits) ==
    /\ DOMAIN refs = 1..Len(refs)
    /\ Len(refs) <= Len(hits)
    /\ \A i \in 1..Len(refs) :
        /\ refs[i].id = i
        /\ refs[i].title = hits[i].title
        /\ refs[i].link = hits[i].link
        /\ refs[i].certainty = hits[i].certainty

\* s occurs in text as a run of consecutive tokens
Contains(text, s) ==
    \E i \in 1..(Len(text) - Len(s) + 1) : SubSeq(text, i, i + Len(s) - 1) = s

\* C1: for N hits and a cap K, generate_insight returns exactly min(N, K)
\* references, numbered 1..min(N, K) without gaps, reference i carrying the
\* title, link and certainty of hit i, on the OpenAI path and on the heuristic
\* path; no hits give no references.
C1_ReferencesAreTheTopK ==
    Generated =>
        /\ Len(generated.references) = Min(Len(papers), payload.limit)
        /\ NumberedFrom(generated.references, papers)

\* C1 witness: three hits cut to two, OpenAI tried and the heuristic used
C1_Witness ==
    /\ Generated
    /\ generated.invoked = <<"openai", "heuristic">>
    /\ Len(papers) = 3 /\ payload.limit = 2
    /\ Len(generated.references) = 2

\* C2: in every successful insight response the `source` tag names the
\* generator whose output the insight text is: "openai" exactly when the text
\* is OpenAI's answer, the heuristic's tag when the heuristic wrote it.
C2_SourceNamesTheGenerator ==
    InsightReturned =>
        /\ (response.source = "openai") <=> (generated.by = "openai")
        /\ response.insight = generated.text

\* An engine's answer counts as a response when the call returned and the text
\* it carries is not empty once trimmed/sanitized
OpenAIAnswered(resp) ==
    ~resp.raises /\ resp.choices > 0 /\ OptStrTruthy(resp.content)
    /\ Strip(TheValue(resp.content)) # <<>>

CohereAnswered(resp) ==
    ~resp.raises /\ resp.choices > 0 /\ OptStrTruthy(resp.content)
    /\ sanitize_title(TheValue(resp.content)) # <<>>

AnthropicAnswered(resp) ==
    ~resp.raises /\ sanitize_title(JoinBlocks(resp.content)) # <<>>

\* The title chain of one /title request that returned a title
TitleChainInOrder ==
    LET cohere_won == service.cohere # None /\ CohereAnswered(TheValue(answers.cohere))
        anthropic_won == ~cohere_won /\ service.anthropic # None
                         /\ AnthropicAnswered(TheValue(answers.anthropic))
    IN  /\ cohere_won => titled.source = "cohere" /\ titled.invoked = <<"cohere">>
        /\ anthropic_won => /\ titled.source = "anthropic"
                            /\ titled.invoked \in {<<"anthropic">>, <<"cohere", "anthropic">>}
        /\ ~cohere_won /\ ~anthropic_won =>
               /\ titled.source = "heuristic"
               /\ titled.invoked[Len(titled.invoked)] = "heuristic"
        /\ "cohere" \in {titled.invoked[i] : i \in 1..Len(titled.invoked)}
               <=> service.cohere # None

\* The insight chain of one /search/insights request that returned
InsightChainInOrder ==
    LET openai_won == client # None /\ OpenAIAnswered(TheValue(answers.openai))
    IN  /\ openai_won => /\ response.source = "openai"
                         /\ generated.invoked = <<"openai">>
                         /\ generated.by = "openai"
        /\ ~openai_won => /\ response.source \in {"heuristic", "fallback"}
                          /\ generated.by = "heuristic"
                          /\ generated.invoked[Len(generated.invoked)] = "heuristic"
        /\ "openai" \in {generated.invoked[i] : i \in 1..Len(generated.invoked)}
               <=> client # None

\* C3: the engines are tried in priority order (titles: Cohere, Anthropic,
\* heuristic; insights: OpenAI, heuristic); the first configured engine that
\* answers wins, the returned tag is its tag and no engine after it is run; an
\* engine is run only after every configured engine before it failed or
\* answered nothing.
C3_FirstAnsweringEngineWins ==
    /\ (endpoint = "/title" /\ pc = "done" /\ response.status = 200) => TitleChainInOrder
    /\ InsightReturned => InsightChainInOrder

\* C4: an exception or an empty answer of one engine never leaves the chain:
\* generate_title on text that is not blank and generate_insight on any input
\* return their result.
C4_EngineFailureIsContained ==
    /\ Generated => ~generated.raised /\ generated.by # "nobody"
    /\ (answers.cohere # {} /\ Strip(payload.text) # <<>>) =>
           /\ titled.raised = ""
           /\ titled.source \in {"cohere", "anthropic", "heuristic"}
           /\ response.status = 200

\* C4 witness: OpenAI raised and generate_insight returned the heuristic text
C4_Witness ==
    /\ Generated /\ client # None
    /\ TheValue(answers.openai).raises
    /\ generated.invoked = <<"openai", "heuristic">>
    /\ ~generated.raised /\ generated.text # <<>>

\* No engine is configured, or the configured one failed or answered nothing
NoEngineAnswered ==
    \/ ~HasAttr(settings, "openai_api_key")
    \/ ~OptStrTruthy(settings.openai_api_key)
    \/ (Generated /\ ~OpenAIAnswered(TheValue(answers.openai)))

\* C5: when no engine is configured or every configured engine fails, and the
\* retriever returned at least one hit, the pipeline succeeds with the tag
\* "heuristic", references numbered 1..min(limit, N) and a text that is not
\* empty and contains every reference's title.
C5_HeuristicResponse ==
    (Insights /\ pc = "done" /\ papers # <<>> /\ NoEngineAnswered) =>
        /\ response.status = 200
        /\ response.source = "heuristic"
        /\ Len(response.references) = Min(payload.limit, Len(papers))
        /\ NumberedFrom(response.references, papers)
        /\ response.insight # <<>>
        /\ \A i \in 1..Len(response.references) :
               Contains(response.insight, response.references[i].title)

\* C6: a run whose retrieval returned at least one hit ends with the
\* InsightResponse, never with the 502; after a retrieval that succeeded the
\* only outcomes are the InsightResponse and, for no hits, the 404.
C6_OnlyRetrievalIsFatal ==
    (Insights /\ pc = "done" /\ answers.search = {"returned"}) =>
        IF papers = <<>> THEN response.status = 404 ELSE response.status = 200

\* The request is over, generation returned and a graph lookup raised
LookupFailed ==
    /\ Insights /\ pc = "done" /\ Generated
    /\ \E n \in 1..Len(answers.graph) : answers.graph[n].outcome = "raise"

\* C7: in graph enrichment a failed lookup for reference i leaves that
\* reference's graph None and touches nothing else: every looked-up reference
\* whose lookup succeeded has its graph, the loop goes on after i, no
\* reference is dropped, moved or changed in id, title, link or certainty, and
\* the request does not end in the 502.
C7_LookupFailureIsLocal ==
    LookupFailed =>
        /\ response.status = 200
        /\ Len(response.references) = Len(generated.references)
        /\ NumberedFrom(response.references, papers)
        /\ Len(answers.graph) =
               Cardinality({i \in 1..Len(references) : OptStrTruthy(references[i].link)})
        /\ \A n \in 1..Len(answers.graph) :
               response.references[answers.graph[n].id].graph =
                   (IF answers.graph[n].outcome = "ok" THEN "data" ELSE "None")

\* C8: when the retriever returns no hit the request ends in the 404, and in
\* that run no engine is built or run, no heuristic text is written and no
\* graph lookup is made.
C8_NoHitsIsNotFound ==
    (Insights /\ answers.search = {"returned"} /\ papers = <<>>) =>
        /\ pc = "done"
        /\ response = HttpError(404)
        /\ calls = <<"search_documents">>
        /\ client = None /\ generated = NoResult
        /\ answers.openai = {} /\ answers.graph = <<>>

\* C8 witness: an insights request whose search returned the empty list
C8_Witness ==
    /\ Insights /\ answers.search = {"returned"} /\ papers = <<>>
    /\ response.status = 404

\* C9: when the retriever raises, the request ends in the 502 with no result
\* in it, and nothing is invoked afterwards.
C9_RetrieverErrorIsFatal ==
    answers.search = {"raised"} =>
        /\ pc = "done"
        /\ response = HttpError(502)
        /\ calls = <<"search_documents">>
        /\ client = None /\ generated = NoResult
        /\ answers.openai = {} /\ answers.graph = <<>>

\* C9 witness: an insights request whose search raised
C9_Witness ==
    /\ Insights /\ answers.search = {"raised"}
    /\ response.status = 502

\* C10: papers_analyzed is the number of hits the insight was built from, the
\* top `limit` ones: it equals the number of references returned.
C10_PapersAnalyzedCountsReferences ==
    InsightReturned =>
        /\ response.papers_analyzed = Len(response.references)
        /\ response.papers_analyzed = Min(payload.limit, Len(papers))


\* The ids of the references the Graph Store was queried for, in order
LookedUp == [n \in 1..Len(answers.graph) |-> answers.graph[n].id]

\* The indices of refs that carry a non-empty link, in order
RECURSIVE Linked(_, _)
Linked(refs, n) ==
    IF n = 0 THEN <<>>
    ELSE Linked(refs, n - 1) \o (IF OptStrTruthy(refs[n].link) THEN <<n>> ELSE <<>>)

\* C11: enrichment queries the Graph Store for a reference if and only if the
\* reference carries a non-empty link: in a request that is over, the lookups
\* made are one for each reference with a link, in order and once each, none
\* for a reference without, and a reference without a link has no graph.
C11_LookupIffLinked ==
    (Insights /\ pc = "done" /\ Generated) =>
        /\ LookedUp = Linked(generated.references, Len(generated.references))
        /\ \A i \in 1..Len(references) :
               ~OptStrTruthy(references[i].link) => references[i].graph = "unset"

\* The half of C11 that the loop keeps: no lookup for a reference without a
\* link, and at most one for a reference with one
C11_OnlyLinkedAtMostOnce ==
    /\ \A n \in 1..Len(LookedUp) : OptStrTruthy(generated.references[LookedUp[n]].link)
    /\ \A n, m \in 1..Len(LookedUp) : LookedUp[n] = LookedUp[m] => n = m


\* A /title request that has been answered
TitleDone == endpoint = "/title" /\ pc = "done"

\* C13: title generation on text that is empty once trimmed is refused before
\* any engine (Cohere, Anthropic, heuristic) is run; the caller gets the 400,
\* never the 502, and no title.
C13_BlankTextIsRejected ==
    (TitleDone /\ Strip(payload.text) = <<>>) =>
        /\ response = HttpError(400)
        /\ titled.raised = "ValueError"
        /\ titled.invoked = <<>> /\ calls = <<>>

\* C13 witness: a blank text of three characters, with both engines configured
C13_Witness ==
    /\ TitleDone /\ Strip(payload.text) = <<>> /\ Len(payload.text) >= 3
    /\ service.cohere # None /\ service.anthropic # None
    /\ response.status = 400


-----------------------------------------------------------------------------
\* Blocking calls.  The specification SpecLive runs the insights pipeline with
\* each external call split into the moment it is issued and the moment it
\* returns.  The handler's own steps are taken whenever they can be (the
\* server schedules the handler thread); the return of an external call is
\* the environment's step, and is guaranteed only when the call was issued
\* with a timeout: expiry then ends the wait with an exception.  Neither
\* chat.completions.create (insights_service.py 85-96) nor session.run
\* (main.py 197-198) is given a timeout argument, and
\* Settings.request_timeout_seconds (config.py 17) is read by neither.

openai_call_timeout == None

graph_call_timeout == None

\* generate_insight (InsightsService), lines 50-52: nothing to call
InsightsGenerateLocal ==
    /\ pc = "generate"
    /\ client = None \/ PySliceTo(papers, payload.limit) = <<>>
    /\ GenerateStep

\* generate_insight (InsightsService), line 85: the request is sent
InsightsBeginGenerate ==
    /\ pc = "generate"
    /\ client # None /\ PySliceTo(papers, payload.limit) # <<>>
    /\ pc' = "await_openai"
    /\ UNCHANGED <<deps, request, papers, client, generated, references, ref_idx, titled, calls,
                   answers, response>>

\* generate_insight (InsightsService), lines 85-107: the call returns or raises
InsightsAwaitOpenAI ==
    /\ pc = "await_openai"
    /\ GenerateStep

\* generate_insights, lines 194-195: a reference without link is skipped
InsightsEnrichLocal ==
    /\ pc = "enrich"
    /\ ref_idx <= Len(references)
    /\ ~OptStrTruthy(references[ref_idx].link)
    /\ EnrichStep

\* generate_insights, lines 196-198: the query is sent
InsightsBeginLookup ==
    /\ pc = "enrich"
    /\ ref_idx <= Len(references)
    /\ OptStrTruthy(references[ref_idx].link)
    /\ pc' = "await_graph"
    /\ UNCHANGED <<deps, request, papers, client, generated, references, ref_idx, titled, calls,
                   answers, response>>

\* generate_insights, lines 198-216: the query returns or raises
InsightsAwaitGraph ==
    /\ pc = "await_graph"
    /\ EnrichStep

NextLive ==
    \/ ReceiveInsights
    \/ InsightsSearch
    \/ InsightsService
    \/ InsightsGenerateLocal
    \/ InsightsBeginGenerate
    \/ InsightsAwaitOpenAI
    \/ InsightsEnrichLocal
    \/ InsightsBeginLookup
    \/ InsightsAwaitGraph
    \/ InsightsRespond
    \/ Return

HandlerSteps ==
    \/ InsightsSearch
    \/ InsightsService
    \/ InsightsGenerateLocal
    \/ InsightsBeginGenerate
    \/ InsightsEnrichLocal
    \/ InsightsBeginLookup
    \/ InsightsRespond

OpenAIExpiry == openai_call_timeout # None /\ InsightsAwaitOpenAI

GraphExpiry == graph_call_timeout # None /\ InsightsAwaitGraph

SpecLive ==
    /\ Init
    /\ [][NextLive]_vars
    /\ WF_vars(HandlerSteps)
    /\ WF_vars(OpenAIExpiry)
    /\ WF_vars(GraphExpiry)

\* C14: every invocation of the insights pipeline eventually produces a
\* response; a provider or graph call that does not answer does not stall it.
C14_EveryInvocationResponds == (Insights /\ pc = "handler") ~> (pc = "done")

\* C14, the part that holds: the handler's own steps always lead to a response
\* or to an external call that is waiting for its answer.
C14_OnlyPendingCallsStall ==
    (Insights /\ pc = "handler") ~> (pc \in {"done", "await_openai", "await_graph"})


SearchDone == endpoint = "/search" /\ pc = "done"

\* C16: when the document service does not raise, /search answers 200 with
\* exactly the hits the service returned: same count, same order, none added,
\* dropped or re-sorted; and it asked the service once.
C16_SearchReturnsTheServiceHits ==
    (SearchDone /\ answers.search = {"returned"}) =>
        /\ response = [NoResponse EXCEPT !.status = 200, !.items = papers]
        /\ calls = <<"search_documents">>

\* C16's case: the service returned more hits than the limit asked for, not
\* in the order of their scores, with a repetition
C16_Witness ==
    /\ SearchDone /\ answers.search = {"returned"}
    /\ Len(papers) = 3 /\ payload.limit < 3
    /\ papers[1].certainty = None /\ papers[2].certainty # None
    /\ papers[3] = papers[1]
    /\ response.items = papers

\* C17: when generate_title returns normally, /title answers 200 with exactly
\* the title and the source tag the service returned.
C17_TitleReturnsTheServicePair ==
    (TitleDone /\ titled.raised = "") =>
        response = [NoResponse EXCEPT !.status = 200, !.title = titled.title,
                                      !.source = titled.source]

\* C17's case: the first engine is configured but the second one answered
C17_Witness ==
    /\ TitleDone /\ titled.raised = ""
    /\ service.cohere # None
    /\ titled.source = "anthropic" /\ titled.title # <<>>
    /\ response.status = 200 /\ response.source = "anthropic"


\* Place of a step in its chain
Priority(step) ==
    CASE step = "cohere" -> 1
      [] step = "openai" -> 1
      [] step = "anthropic" -> 2
      [] step = "heuristic" -> 3
      [] OTHER -> 0

\* The steps `invoked` of one invocation that ended with `winner`, in a chain
\* whose configured providers are `configured`
ForwardOnly(invoked, winner, configured) ==
    /\ \A i, j \in 1..Len(invoked) : i < j => Priority(invoked[i]) < Priority(invoked[j])
    /\ \A i \in 1..Len(invoked) : invoked[i] \in configured \cup {"heuristic"}
    /\ \A i \in 1..Len(invoked) :
           invoked[i] = "heuristic" => \A p \in configured : \E j \in 1..(i - 1) : invoked[j] = p
    /\ invoked # <<>> /\ invoked[Len(invoked)] = winner

ConfiguredTitleEngines ==
    (IF service.cohere # None THEN {"cohere"} ELSE {})
        \cup (IF service.anthropic # None THEN {"anthropic"} ELSE {})

\* C18: within one invocation the chain only moves forward: each configured
\* provider is attempted at most once, in increasing priority order, the
\* heuristic runs only after every configured provider was attempted, and the
\* step that produced the result is the last step that ran.
C18_ChainIsForwardOnly ==
    /\ (TitleDone /\ titled.raised = "") =>
           ForwardOnly(titled.invoked, titled.source, ConfiguredTitleEngines)
    /\ (Generated /\ ~generated.raised /\ generated.by # "canned") =>
           ForwardOnly(generated.invoked, generated.by,
                       IF client # None THEN {"openai"} ELSE {})

\* C18's case: both title engines are configured and give nothing, so the
\* chain runs through all three steps
C18_Witness ==
    /\ TitleDone /\ titled.raised = ""
    /\ titled.invoked = <<"cohere", "anthropic", "heuristic">>
    /\ titled.source = "heuristic"


\* The hits generate_insight works on
TopPapers == PySliceTo(papers, payload.limit)

\* A prompt was sent to OpenAI
PromptSent == Generated /\ generated.prompt # <<>>

\* The text the excerpt of a hit is to be taken from
ChosenText(paper) ==
    IF paper.full_abstract # <<>> THEN paper.full_abstract ELSE paper.content_preview

RelevanceStrings == {"N/A", "0.00%", "75.00%", "100.00%"}

\* The prompt has a block for hit idx whose summary line is `excerpt`
HasExcerpt(prompt, idx, paper, excerpt) ==
    \E rel \in RelevanceStrings :
        Contains(prompt, <<"[", NumStr(idx), "] ">> \o paper.title
                         \o <<"\n", "Relevancia: ", rel, "\n", "Resumen: ">>
                         \o excerpt \o <<"\n">>)

Ellipsis == <<".", ".", ".">>

\* C19: for every hit the prompt excerpt is taken from the full abstract when
\* that is not empty and from the content preview otherwise, holds at most
\* its first 500 characters, and ends with the ellipsis marker exactly when
\* the chosen text is longer than 500 characters.
C19_EllipsisMarksTruncation ==
    PromptSent =>
        \A i \in 1..Len(TopPapers) :
            LET chosen == ChosenText(TopPapers[i])
            IN  HasExcerpt(generated.prompt, i, TopPapers[i],
                           IF Len(chosen) > 500 THEN Take(chosen, 500) \o Ellipsis ELSE chosen)

\* C19, the part that holds: the excerpt is the first 500 characters of the
\* chosen text; the marker follows it whether the text was cut or not.
C19_ExcerptIsPrefixPlusMarker ==
    PromptSent =>
        \A i \in 1..Len(TopPapers) :
            HasExcerpt(generated.prompt, i, TopPapers[i],
                       Take(ChosenText(TopPapers[i]), 500) \o Ellipsis)

\* Texts on both sides of the excerpt length reach the prompt
C19_LongTextsReachThePrompt ==
    /\ PromptSent /\ Len(TopPapers) = 2
    /\ Len(ChosenText(TopPapers[1])) = 500
    /\ Len(ChosenText(TopPapers[2])) > 500

\* The relevance a hit is to be shown with
PresentRelevance(paper) ==
    IF paper.certainty = None THEN "N/A" ELSE PercentStr(TheValue(paper.certainty))

\* C20: a hit whose certainty is present, whatever its value, is shown with
\* its percentage in the prompt block and in the heuristic summary line; "N/A"
\* in the prompt and no relevance in the heuristic line are for hits without
\* certainty only.
C20_RelevanceShownWheneverPresent ==
    Generated =>
        \A i \in 1..Len(TopPapers) :
            LET paper == TopPapers[i]
                head == <<"[", NumStr(i), "] ">> \o paper.title
            IN  /\ generated.prompt # <<>> =>
                       Contains(generated.prompt,
                                head \o <<"\n", "Relevancia: ", PresentRelevance(paper), "\n">>)
                /\ generated.by = "heuristic" =>
                       Contains(generated.text,
                                head \o (IF paper.certainty = None THEN <<>>
                                         ELSE <<" (relevancia: ", PresentRelevance(paper), ")">>)
                                     \o <<"\n">>)

\* C20, the part that holds: a certainty that is present and not zero is shown
\* with its percentage, an absent one as "N/A" or not at all.
C20_NonZeroRelevanceShown ==
    Generated =>
        \A i \in 1..Len(TopPapers) :
            LET paper == TopPapers[i]
                head == <<"[", NumStr(i), "] ">> \o paper.title
            IN  paper.certainty # Some(0) =>
                /\ generated.prompt # <<>> =>
                       Contains(generated.prompt,
                                head \o <<"\n", "Relevancia: ", PresentRelevance(paper), "\n">>)
                /\ generated.by = "heuristic" =>
                       Contains(generated.text,
                                head \o (IF paper.certainty = None THEN <<>>
                                         ELSE <<" (relevancia: ", PresentRelevance(paper), ")">>)
                                     \o <<"\n">>)


-----------------------------------------------------------------------------
\* Shared handles.  The specification SpecHandles runs the code that builds,
\* publishes and closes the handles of the external collaborators, one
\* statement at a time, on threads that interleave freely: FastAPI runs the
\* synchronous dependency get_document_service on a pool of worker threads,
\* and the handlers themselves interleave at their awaits.

\* thread t moves to `label` with the fields of `changes` replaced
Step(t, changes) ==
    thread' = [thread EXCEPT ![t] = [f \in DOMAIN @ |-> IF f \in DOMAIN changes
                                                         THEN changes[f] ELSE @[f]]]

At(t, label) == thread[t].pc = label

Goto(label) == [pc |-> label]

Finish(outcome) == [pc |-> "idle", outcome |-> outcome]

Built(kind) == [handles EXCEPT ![kind] = @ + 1]

\* A thread starts running `op`
Call(t, op, s) ==
    /\ At(t, "idle")
    /\ handles.calls < MaxCalls
    /\ thread' = [thread EXCEPT ![t] = [IdleThread EXCEPT !.pc = op, !.op = op, !.settings = s]]
    /\ handles' = [handles EXCEPT !.calls = @ + 1,
                                 !.shutdowns = IF op = "shutdown_document_service"
                                               THEN @ + 1 ELSE @]
    /\ UNCHANGED <<vars, document_service, client_instance, service_lock, client_lock>>

CallGetDocumentService(t) == Call(t, "get_document_service", DeclaredSettings)

CallShutdown(t) == Call(t, "shutdown_document_service", DeclaredSettings)

CallGraph(t) == Call(t, "get_graph", DeclaredSettings)

CallInsightsService(t) == \E s \in SettingsObjects : Call(t, "InsightsService", s)

\* get_document_service, line 21: if _document_service is not None
GdsCheck(t) ==
    /\ At(t, "get_document_service")
    /\ Step(t, Goto(IF document_service # None THEN "gds_return" ELSE "gds_lock"))
    /\ UNCHANGED <<vars, document_service, client_instance, service_lock, client_lock, handles>>

\* line 22: return _document_service
GdsReturn(t) ==
    /\ At(t, "gds_return")
    /\ Step(t, Finish("returned") @@ [result |-> document_service])
    /\ UNCHANGED <<vars, document_service, client_instance, service_lock, client_lock, handles>>

\* line 24: with _service_lock
GdsLock(t) ==
    /\ At(t, "gds_lock")
    /\ service_lock = None
    /\ service_lock' = Some(t)
    /\ Step(t, Goto("gds_locked"))
    /\ UNCHANGED <<vars, document_service, client_instance, client_lock, handles>>

\* line 25: if _document_service is not None
GdsCheckLocked(t) ==
    /\ At(t, "gds_locked")
    /\ Step(t, Goto(IF document_service # None THEN "gds_return_locked"
                    ELSE "get_weaviate_client"))
    /\ UNCHANGED <<vars, document_service, client_instance, service_lock, client_lock, handles>>

\* lines 26 and 42: return _document_service, leaving the with block
GdsReturnLocked(t) ==
    /\ At(t, "gds_return_locked")
    /\ Step(t, Finish("returned") @@ [result |-> document_service])
    /\ service_lock' = None
    /\ UNCHANGED <<vars, document_service, client_instance, client_lock, handles>>

\* get_weaviate_client, line 31: if _client_instance is not None
GwcCheck(t) ==
    /\ At(t, "get_weaviate_client")
    /\ Step(t, Goto(IF client_instance # None THEN "gwc_return" ELSE "gwc_lock"))
    /\ UNCHANGED <<vars, document_service, client_instance, service_lock, client_lock, handles>>

\* line 32: return _client_instance
GwcReturn(t) ==
    /\ At(t, "gwc_return")
    /\ Step(t, Goto("gds_construct") @@ [client |-> client_instance])
    /\ UNCHANGED <<vars, document_service, client_instance, service_lock, client_lock, handles>>

\* line 34: with _client_lock
GwcLock(t) ==
    /\ At(t, "gwc_lock")
    /\ client_lock = None
    /\ client_lock' = Some(t)
    /\ Step(t, Goto("gwc_locked"))
    /\ UNCHANGED <<vars, document_service, client_instance, service_lock, handles>>

\* line 35: if _client_instance is not None
GwcCheckLocked(t) ==
    /\ At(t, "gwc_locked")
    /\ Step(t, Goto(IF client_instance # None THEN "gwc_return_locked" ELSE "gwc_connect"))
    /\ UNCHANGED <<vars, document_service, client_instance, service_lock, client_lock, handles>>

\* (variant: the locks are taken with acquire() and released only on the
\* normal path, so the exception of a failed connection leaves them held)
GwcConnect_KeepsLocksOnRaise(t) ==
    /\ At(t, "gwc_connect")
    /\ \E connected \in BOOLEAN :
        IF connected
        THEN /\ client_instance' = Some(handles.weaviate_client + 1)
             /\ handles' = Built("weaviate_client")
             /\ Step(t, Goto("gwc_return_locked"))
        ELSE /\ Step(t, Finish("503"))
             /\ UNCHANGED <<client_instance, handles>>
    /\ UNCHANGED <<vars, document_service, service_lock, client_lock>>

\* lines 38-57: connect_to_weaviate_cloud or connect_to_local returns a client
\* or raises; the exception leaves both with blocks and becomes the 503 of
\* get_document_service, lines 30-34
GwcConnect(t) ==
    /\ At(t, "gwc_connect")
    /\ \E connected \in BOOLEAN :
        IF connected
        THEN /\ client_instance' = Some(handles.weaviate_client + 1)
             /\ handles' = Built("weaviate_client")
             /\ Step(t, Goto("gwc_return_locked"))
             /\ UNCHANGED <<service_lock, client_lock>>
        ELSE /\ Step(t, Finish("503"))
             /\ client_lock' = None
             /\ service_lock' = None
             /\ UNCHANGED <<client_instance, handles>>
    /\ UNCHANGED <<vars, document_service>>

\* lines 36 and 59: return _client_instance, leaving the with block
GwcReturnLocked(t) ==
    /\ At(t, "gwc_return_locked")
    /\ Step(t, Goto("gds_construct") @@ [client |-> client_instance])
    /\ client_lock' = None
    /\ UNCHANGED <<vars, document_service, client_instance, service_lock, handles>>

\* (variant: the slot is assigned before the constructor has finished, so a
\* constructor that raises leaves a half-built service published)
GdsConstruct_PublishesFirst(t) ==
    /\ At(t, "gds_construct")
    /\ \E constructed \in BOOLEAN :
        IF constructed
        THEN /\ document_service' = Some(handles.document_service + 1)
             /\ handles' = Built("document_service")
             /\ Step(t, Goto("gds_return_locked"))
             /\ UNCHANGED service_lock
        ELSE /\ Step(t, Finish("500"))
             /\ document_service' = Some(handles.document_service + 1)
             /\ service_lock' = None
             /\ UNCHANGED handles
    /\ UNCHANGED <<vars, client_instance, client_lock>>

\* get_document_service, lines 36-41: DocumentService(...) is built and
\* published, or its constructor raises and the exception leaves the with block
GdsConstruct(t) ==
    /\ At(t, "gds_construct")
    /\ \E constructed \in BOOLEAN :
        IF constructed
        THEN /\ document_service' = Some(handles.document_service + 1)
             /\ handles' = Built("document_service")
             /\ Step(t, Goto("gds_return_locked"))
             /\ UNCHANGED service_lock
        ELSE /\ Step(t, Finish("500"))
             /\ service_lock' = None
             /\ UNCHANGED <<document_service, handles>>
    /\ UNCHANGED <<vars, client_instance, client_lock>>

\* shutdown_document_service, line 49: with _service_lock
SdsLock(t) ==
    /\ At(t, "shutdown_document_service")
    /\ service_lock = None
    /\ service_lock' = Some(t)
    /\ Step(t, Goto("sds_clear"))
    /\ UNCHANGED <<vars, document_service, client_instance, client_lock, handles>>

\* line 50: _document_service = None
SdsClear(t) ==
    /\ At(t, "sds_clear")
    /\ document_service' = None
    /\ Step(t, Goto("close_client"))
    /\ UNCHANGED <<vars, client_instance, service_lock, client_lock, handles>>

\* close_client, line 66: with _client_lock
CcLock(t) ==
    /\ At(t, "close_client")
    /\ client_lock = None
    /\ client_lock' = Some(t)
    /\ Step(t, Goto("cc_locked"))
    /\ UNCHANGED <<vars, document_service, client_instance, service_lock, handles>>

\* line 67: if _client_instance is not None; otherwise the with block is left
CcCheck(t) ==
    /\ At(t, "cc_locked")
    /\ IF client_instance # None
       THEN Step(t, Goto("cc_close")) /\ UNCHANGED client_lock
       ELSE Step(t, Goto("sds_unlock")) /\ client_lock' = None
    /\ UNCHANGED <<vars, document_service, client_instance, service_lock, handles>>

\* line 68: _client_instance.close() returns, or raises and the exception
\* leaves both with blocks
CcClose(t) ==
    /\ At(t, "cc_close")
    /\ \E closed \in BOOLEAN :
        IF closed
        THEN /\ handles' = Built("closed_clients")
             /\ Step(t, Goto("cc_clear"))
             /\ UNCHANGED <<service_lock, client_lock>>
        ELSE /\ Step(t, Finish("raised"))
             /\ client_lock' = None
             /\ service_lock' = None
             /\ UNCHANGED handles
    /\ UNCHANGED <<vars, document_service, client_instance>>

\* line 69: _client_instance = None, leaving the with block
CcClear(t) ==
    /\ At(t, "cc_clear")
    /\ client_instance' = None
    /\ client_lock' = None
    /\ Step(t, Goto("sds_unlock"))
    /\ UNCHANGED <<vars, document_service, service_lock, handles>>

\* shutdown_document_service leaves its with block
SdsUnlock(t) ==
    /\ At(t, "sds_unlock")
    /\ service_lock' = None
    /\ Step(t, Finish("returned"))
    /\ UNCHANGED <<vars, document_service, client_instance, client_lock, handles>>

\* get_graph, line 147: Neo4jService(settings) opens a driver of its own
\* (neo4j_service.py 20-23), or raises and `finally` finds nothing to close
GraphConstruct(t) ==
    /\ At(t, "get_graph")
    /\ \E constructed \in BOOLEAN :
        IF constructed
        THEN /\ handles' = Built("neo4j_driver")
             /\ Step(t, Goto("graph_query")
                        @@ [neo4j_service |-> Some(handles.neo4j_driver + 1)])
        ELSE /\ Step(t, Finish("502"))
             /\ UNCHANGED handles
    /\ UNCHANGED <<vars, document_service, client_instance, service_lock, client_lock>>

\* lines 148-155: the query and the response model succeed, or something raises
GraphQuery(t) ==
    /\ At(t, "graph_query")
    /\ \E answered \in BOOLEAN :
        Step(t, Goto("graph_finally") @@ [outcome |-> IF answered THEN "200" ELSE "502"])
    /\ UNCHANGED <<vars, document_service, client_instance, service_lock, client_lock, handles>>

\* (variant: close() is the last statement of the try body instead of the
\* finally block, so the error path skips it)
GraphFinally_ClosesOnSuccessOnly(t) ==
    /\ At(t, "graph_finally")
    /\ IF thread[t].outcome = "200"
       THEN /\ handles' = Built("closed_drivers")
            /\ Step(t, Goto("idle") @@ [closes |-> thread[t].closes + 1])
       ELSE /\ Step(t, Goto("idle"))
            /\ UNCHANGED handles
    /\ UNCHANGED <<vars, document_service, client_instance, service_lock, client_lock>>

\* lines 156-158: `if neo4j_service: neo4j_service.close()`, which calls
\* driver.close() (neo4j_service.py 26-29); an exception of close() replaces
\* the pending response
GraphFinally(t) ==
    /\ At(t, "graph_finally")
    /\ handles' = Built("closed_drivers")
    /\ \E close_raises \in BOOLEAN :
        Step(t, Goto("idle") @@ [closes |-> thread[t].closes + 1,
                                 outcome |-> IF close_raises THEN "500" ELSE thread[t].outcome])
    /\ UNCHANGED <<vars, document_service, client_instance, service_lock, client_lock>>

\* generate_insights, line 184: InsightsService(openai_api_key=
\* settings.openai_api_key) builds a client of its own when there is a key
InsightsServiceConstruct(t) ==
    /\ At(t, "InsightsService")
    /\ IF ~HasAttr(thread[t].settings, "openai_api_key")
       THEN Step(t, Finish("502")) /\ UNCHANGED handles
       ELSE \E ctor_raises \in BOOLEAN :
                LET c == build_openai_client(thread[t].settings.openai_api_key, ctor_raises)
                IN  /\ Step(t, Finish("constructed") @@ [client |-> c])
                    /\ handles' = IF c # None THEN Built("openai_client") ELSE handles
    /\ UNCHANGED <<vars, document_service, client_instance, service_lock, client_lock>>

NextHandles ==
    \E t \in Threads :
        \/ CallGetDocumentService(t)
        \/ CallShutdown(t)
        \/ CallGraph(t)
        \/ CallInsightsService(t)
        \/ GdsCheck(t)
        \/ GdsReturn(t)
        \/ GdsLock(t)
        \/ GdsCheckLocked(t)
        \/ GdsReturnLocked(t)
        \/ GwcCheck(t)
        \/ GwcReturn(t)
        \/ GwcLock(t)
        \/ GwcCheckLocked(t)
        \/ GwcConnect(t)
        \/ GwcReturnLocked(t)
        \/ GdsConstruct(t)
        \/ SdsLock(t)
        \/ SdsClear(t)
        \/ CcLock(t)
        \/ CcCheck(t)
        \/ CcClose(t)
        \/ CcClear(t)
        \/ SdsUnlock(t)
        \/ GraphConstruct(t)
        \/ GraphQuery(t)
        \/ GraphFinally(t)
        \/ InsightsServiceConstruct(t)

SpecHandles == Init /\ [][NextHandles]_<<vars, deps>>


\* The threads whose get_document_service call has returned
Served == {t \in Threads : thread[t].op = "get_document_service"
                           /\ thread[t].pc = "idle" /\ thread[t].outcome = "returned"}

\* C12: between startup and shutdown each handle is built at most once: the
\* document service, its Weaviate client, the Graph Store driver and the
\* provider client; concurrent first requests cause one construction and all
\* obtain the same handle.
C12_EachHandleBuiltOnce ==
    handles.shutdowns = 0 =>
        /\ handles.document_service <= 1
        /\ handles.weaviate_client <= 1
        /\ handles.neo4j_driver <= 1
        /\ handles.openai_client <= 1
        /\ \A t \in Served : thread[t].result = Some(1)

\* C12, the part that holds: the document service and its Weaviate client are
\* built at most once before shutdown, whatever the interleaving of first
\* requests, and every call that returns hands out that one service.
C12_DocumentServiceBuiltOnce ==
    handles.shutdowns = 0 =>
        /\ handles.document_service <= 1
        /\ handles.weaviate_client <= 1
        /\ \A t \in Served : thread[t].result = Some(1) /\ document_service = Some(1)

\* Two first requests raced for the service lock and both were served
C12_ConcurrentFirstRequestsServed ==
    /\ handles.shutdowns = 0
    /\ Served = Threads
    /\ handles.calls = 2

\* C12, the other part that fails: the provider client
C12_ProviderClientBuiltOnce ==
    handles.shutdowns = 0 => handles.openai_client <= 1


\* C21: a get_document_service call that returns normally returns a
\* DocumentService, never the None that a concurrent shutdown wrote between
\* the call's check and its return.
C21_ReturnedServiceIsNotNone ==
    \A t \in Served : thread[t].result # None

\* C21, the part that holds: a call that returns from inside the with block
\* (lines 26 and 42) returns the service that is published at that moment.
C21_LockedReturnIsNotNone ==
    [][\A t \in Threads : GdsReturnLocked(t) => thread'[t].result # None]_<<vars, deps>>


\* One statement of whatever thread t is running
ThreadStep(t) ==
    \/ GdsCheck(t) \/ GdsReturn(t) \/ GdsLock(t) \/ GdsCheckLocked(t) \/ GdsReturnLocked(t)
    \/ GwcCheck(t) \/ GwcReturn(t) \/ GwcLock(t) \/ GwcCheckLocked(t) \/ GwcConnect(t)
    \/ GwcReturnLocked(t) \/ GdsConstruct(t)
    \/ SdsLock(t) \/ SdsClear(t) \/ CcLock(t) \/ CcCheck(t) \/ CcClose(t) \/ CcClear(t)
    \/ SdsUnlock(t)
    \/ GraphConstruct(t) \/ GraphQuery(t) \/ GraphFinally(t)
    \/ InsightsServiceConstruct(t)

\* SpecHandles with every thread scheduled: a thread that can execute its next
\* statement eventually does; the external connect, close and constructor
\* calls are among the statements, so they return (or raise)
SpecHandlesFair ==
    /\ SpecHandles
    /\ \A t \in Threads : WF_<<vars, deps>>(ThreadStep(t))

\* Labels at which a thread is inside `with _service_lock`
InServiceLock ==
    {"gds_locked", "gds_return_locked", "get_weaviate_client", "gwc_return", "gwc_lock",
     "gwc_locked", "gwc_connect", "gwc_return_locked", "gds_construct",
     "sds_clear", "close_client", "cc_locked", "cc_close", "cc_clear", "sds_unlock"}

\* Labels at which a thread is inside `with _client_lock`
InClientLock == {"gwc_locked", "gwc_connect", "gwc_return_locked", "cc_locked", "cc_close", "cc_clear"}

\* Each lock is held exactly by the thread that is inside its with block
LocksFollowTheBlocks ==
    \A t \in Threads :
        /\ service_lock = Some(t) <=> thread[t].pc \in InServiceLock
        /\ client_lock = Some(t) <=> thread[t].pc \in InClientLock

\* The client lock is only taken, and only held, inside the service lock
ServiceLockFirst ==
    \A t \in Threads :
        thread[t].pc \in InClientLock \cup {"gwc_lock", "close_client"} => service_lock = Some(t)

\* Thread t is in a call and cannot execute its next statement
Blocked(t) == thread[t].pc # "idle" /\ ~ENABLED ThreadStep(t)

\* A blocked thread waits for a lock whose holder is another thread that can
\* run: no cycle of waiting threads
BlockedOnlyByARunningHolder ==
    \A t \in Threads :
        Blocked(t) =>
            \E h \in Threads \ {t} :
                /\ ~Blocked(h)
                /\ \/ thread[t].pc \in {"gds_lock", "shutdown_document_service"}
                      /\ service_lock = Some(h)
                   \/ thread[t].pc \in {"gwc_lock", "close_client"} /\ client_lock = Some(h)

\* C22: get_document_service and shutdown_document_service cannot deadlock:
\* the service lock is always taken before the client lock, each lock is
\* released on every exit, normal or by exception, and a call that waits,
\* waits for a thread that can run; the calls have no loops, so each completes.
C22_NoDeadlock ==
    /\ LocksFollowTheBlocks
    /\ ServiceLockFirst
    /\ BlockedOnlyByARunningHolder

\* C22 as a property of behaviours: with every thread scheduled, every call
\* completes.
C22_EveryCallCompletes ==
    \A t \in Threads : (thread[t].pc # "idle") ~> (thread[t].pc = "idle")

\* C22's case: one thread is closing the client inside shutdown while the
\* other waits for the service lock in get_document_service
C22_Witness ==
    /\ \E t \in Threads : thread[t].pc = "cc_close" /\ service_lock = Some(t)
    /\ \E t \in Threads : thread[t].pc = "gds_lock" /\ Blocked(t)


\* Thread t's get_document_service call ends in this step because the
\* connection or the constructor raised
ConstructionFails(t) ==
    /\ GwcConnect(t) \/ GdsConstruct(t)
    /\ thread'[t].pc = "idle"

\* Every client built so far was closed once, except the one in the slot
ClientsClosedOnce ==
    handles.closed_clients =
        IF client_instance # None /\ \A t \in Threads : thread[t].pc # "cc_clear"
        THEN handles.weaviate_client - 1 ELSE handles.weaviate_client

\* C23: when the Weaviate connection or the DocumentService constructor
\* raises, the caller gets an error, no service is published, both locks are
\* free again, and a call that finds the slot empty goes on to build; when
\* shutdown_document_service returns, both slots are None and every client
\* built was closed exactly once.
C23_FailedConstructionLeavesNoTrace ==
    /\ [][\A t \in Threads :
            /\ ConstructionFails(t) =>
                   /\ thread'[t].outcome \in {"503", "500"}
                   /\ thread'[t].result = None
                   /\ document_service' = None
                   /\ service_lock' = None /\ client_lock' = None
            /\ (GdsCheckLocked(t) /\ document_service = None) =>
                   thread'[t].pc = "get_weaviate_client"
            /\ (GwcCheckLocked(t) /\ client_instance = None) =>
                   thread'[t].pc = "gwc_connect"
            /\ SdsUnlock(t) =>
                   /\ document_service' = None /\ client_instance' = None
                   /\ handles'.closed_clients = handles'.weaviate_client]_<<vars, deps>>
    /\ []ClientsClosedOnce

\* C23's case: one call failed with 503, a later one built the service, and
\* a shutdown then closed the client and returned
C23_Witness ==
    /\ \E t \in Threads : thread[t].op = "shutdown_document_service"
                          /\ thread[t].pc = "idle" /\ thread[t].outcome = "returned"
    /\ \E t \in Threads : thread[t].op = "get_document_service"
                          /\ thread[t].pc = "idle" /\ thread[t].outcome = "503"
    /\ handles.document_service = 1
    /\ handles.weaviate_client = 1 /\ handles.closed_clients = 1
    /\ document_service = None /\ client_instance = None


\* The threads whose /graph request has ended
GraphEnded == {t \in Threads : thread[t].op = "get_graph" /\ thread[t].pc = "idle"}

\* The threads whose /graph request holds a Neo4jService
GraphRunning == {t \in Threads : thread[t].pc \in {"graph_query", "graph_finally"}}

\* C24: a /graph request that built its Neo4jService has called close() on it
\* exactly once when its response is produced, with 200 and with 502 alike; a
\* request whose construction failed closed nothing; no driver opened by a
\* /graph request is left open by a request that has ended.
C24_GraphDriverClosedOnce ==
    /\ \A t \in GraphEnded :
           /\ thread[t].neo4j_service # None => thread[t].closes = 1
           /\ thread[t].neo4j_service = None => thread[t].closes = 0 /\ thread[t].outcome = "502"
    /\ \A t \in GraphRunning : thread[t].neo4j_service # None /\ thread[t].closes = 0
    /\ handles.closed_drivers = (handles.neo4j_driver - 1) - Cardinality(GraphRunning)

\* C24's case: the query of a request raised after its service was built, and
\* the request ended with 502 and the driver closed
C24_Witness ==
    \E t \in GraphEnded :
        /\ thread[t].neo4j_service # None
        /\ thread[t].outcome = "502"
        /\ thread[t].closes = 1

=============================================================================
